---- MODULE Spec2Model ----
(***************************************************************************)
(* A model of pylana's LogsAPI (src/pylana/modules/logs.py): a synchronous *)
(* HTTP client for the event logs of a process-mining backend.            *)
(*                                                                         *)
(* The state is the backend's log catalog and the record of the client's  *)
(* last call: the operation, its arguments, the events of the call in     *)
(* program order (requests sent, responses received, status checks, body  *)
(* decodings) and how the call ended (a value or an exception).           *)
(* Every action is one public method, run from entry to return or raise;  *)
(* the backend's answers are inputs of the action.                        *)
(***************************************************************************)
EXTENDS Naturals, Sequences, FiniteSets

VARIABLES catalog, call

vars == <<catalog, call>>

\* The largest number of logs the backend holds.
MaxLogs == 3

Ids == 1..MaxLogs

\* The absent log id (None, or the empty string: both are falsy).
NoId == 0

\* Log names, as sequences of characters.
Names == {<<"a", "1">>, <<"a", "2">>, <<"b", "1">>}

\* The absent name (None).
None == <<"None">>

\* Regular expressions: a sequence of literal characters and "." (any
\* character); the empty expression matches every name.
Patterns == {<<"a">>, <<"1">>, <<"b", "1">>, <<".", "2">>, <<"c">>, <<>>}

\* The caller's pass-through keyword arguments (**kwargs): the set of the
\* option names given.
Kwargs == {{}, {"timeout"}}

\* Values of the case_attributes argument and of the semantics arguments;
\* "None", the empty string and the empty list are falsy.
CaseAttributes == {"None", "", "csv"}
CaseSemantics == {"None", "[]", "semantics"}

Truthy(v) == v \notin {"None", "", "[]"}

LogRecords == [id : Ids, name : Names]

\* The catalogs of the backend: no two logs share an id; names may repeat.
Catalogs ==
    {c \in UNION {[1..n -> LogRecords] : n \in 0..MaxLogs} :
        \A i, j \in 1..Len(c) : c[i].id = c[j].id => i = j}

-----------------------------------------------------------------------------
(* Responses of the backend. *)

\* Bodies: the JSON list of logs of a successful listing, the text of any
\* other successful response, and what an error response may carry: no JSON
\* at all, an empty JSON value ({} or []), or a JSON error object.
Body(kind, logs) == [kind |-> kind, logs |-> logs]

ErrorBodies == {"notjson", "emptyjson", "errobj"}

Response(ok, body) == [ok |-> ok, body |-> body]

Listing(cat) == Response(TRUE, Body("list", cat))

Success == Response(TRUE, Body("text", <<>>))

Failure(kind) == Response(FALSE, Body(kind, <<>>))

\* What GET /api/logs may answer while the backend holds cat.
ListingResponses(cat) == {Listing(cat)} \cup {Failure(k) : k \in ErrorBodies}

\* What any other request may answer.
PlainResponses == {Success, Failure("errobj")}

-----------------------------------------------------------------------------
(* Events of a call, in program order. *)

NoEvent ==
    [ev |-> "none", method |-> "", route |-> "", id |-> NoId,
     files |-> {}, data |-> {}, kwargs |-> {}, ok |-> TRUE]

Request(method, route, id, files, data, kwargs) ==
    [NoEvent EXCEPT !.ev = "request", !.method = method, !.route = route,
                    !.id = id, !.files = files, !.data = data,
                    !.kwargs = kwargs]

Received(resp) == [NoEvent EXCEPT !.ev = "response", !.ok = resp.ok]

\* raise_for_status() on the last response received.
Validated == [NoEvent EXCEPT !.ev = "validate"]

\* resp.json() or resp.text on the last response received.
Parsed == [NoEvent EXCEPT !.ev = "parse"]

\* The state of a running call: its events so far, the exception raised
\* ("none": none) and the value computed.
Running(trace, err, val) == [trace |-> trace, err |-> err, val |-> val]

Raise(r, err) == [r EXCEPT !.err = err]

-----------------------------------------------------------------------------
(* re.compile(contains).search(name) *)

TokenMatches(tok, ch) == tok = "." \/ tok = ch

MatchesAt(pattern, name, i) ==
    /\ i + Len(pattern) - 1 <= Len(name)
    /\ \A j \in 1..Len(pattern) : TokenMatches(pattern[j], name[i + j - 1])

search(pattern, name) ==
    \E i \in 1..(Len(name) + 1) : MatchesAt(pattern, name, i)

-----------------------------------------------------------------------------
(* The transport and the response decorators. *)

\* API.get / API.post / API.delete: one request, one response, no check.
send(req, resp) == Running(<<req, Received(resp)>>, "none", resp)

get(route, id, kwargs, resp) ==
    send(Request("GET", route, id, {}, {}, kwargs), resp)

post(route, id, files, data, kwargs, resp) ==
    send(Request("POST", route, id, files, data, kwargs), resp)

delete(route, id, kwargs, resp) ==
    send(Request("DELETE", route, id, {}, {}, kwargs), resp)

\* @handle_response: the status check; a non-2xx status raises.
handle_response(r) ==
    IF r.err # "none" THEN r
    ELSE [r EXCEPT !.trace = Append(@, Validated),
                   !.err = IF r.val.ok THEN "none" ELSE "RequestError"]

\* @expect_json: the body decoded as JSON.
expect_json(r) ==
    IF r.err # "none" THEN r
    ELSE [r EXCEPT !.trace = Append(@, Parsed),
                   !.err = IF r.val.body.kind \in {"list", "emptyjson", "errobj"}
                           THEN "none" ELSE "ProtocolError",
                   !.val = r.val.body.logs]

-----------------------------------------------------------------------------
(* The methods of LogsAPI. Each takes the caller's arguments and the       *)
(* backend's answers to the requests it issues, and gives the run of the   *)
(* call.                                                                   *)

list_logs(kwargs, resp) ==
    expect_json(handle_response(get("/api/logs", NoId, kwargs, resp)))

list_user_logs(kwargs, resp) ==
    expect_json(handle_response(get("/api/users/logs", NoId, kwargs, resp)))

\* resp.json() in get_log_ids: the body decoded, whatever the status was.
json(r) ==
    IF r.val.body.kind = "notjson"
    THEN Raise([r EXCEPT !.trace = Append(@, Parsed)], "JSONDecodeError")
    ELSE [r EXCEPT !.trace = Append(@, Parsed), !.val = r.val.body]

\* Mutant of MatchingIds: the filter is dropped, every listed log is taken.
MatchingIds_all(contains, logs) == [i \in 1..Len(logs) |-> logs[i].id]

\* Mutant of MatchingIds: rc.match in place of rc.search, a match only at the
\* start of the name.
MatchingIds_match(contains, logs) ==
    LET Matches(log) == MatchesAt(contains, log.name, 1)
        matching == SelectSeq(logs, Matches)
    IN  [i \in 1..Len(matching) |-> matching[i].id]

\* [log['id'] for log in body if rc.search(log['name'])]
MatchingIds(contains, logs) ==
    LET Matches(log) == search(contains, log.name)
        matching == SelectSeq(logs, Matches)
    IN  [i \in 1..Len(matching) |-> matching[i].id]

get_log_ids(contains, kwargs, resp) ==
    LET r == get("/api/logs", NoId, kwargs, resp)
    IN  IF contains = None
        THEN Raise(r, "TypeError")
        ELSE LET p == json(r)
             IN  IF p.err # "none" THEN p
                 ELSE IF p.val.kind = "errobj" THEN Raise(p, "TypeError")
                 ELSE [p EXCEPT !.val = MatchingIds(contains, p.val.logs)]

\* Mutant of get_log_id: of several matches the first is taken.
get_log_id_first(log_name, kwargs, resp) ==
    LET r == get_log_ids(log_name, kwargs, resp)
    IN  IF r.err # "none" THEN r
        ELSE IF Len(r.val) >= 1 THEN [r EXCEPT !.val = r.val[1]]
        ELSE Raise(r, "AmbiguousNameError")

get_log_id(log_name, kwargs, resp) ==
    LET r == get_log_ids(log_name, kwargs, resp)
    IN  IF r.err # "none" THEN r
        ELSE IF Len(r.val) = 1 THEN [r EXCEPT !.val = r.val[1]]
        ELSE Raise(r, "AmbiguousNameError")

\* Mutant of upload_event_log: the case parts are sent only together.
upload_event_log_paired(attributes, semantics_given, kwargs, resp) ==
    LET both == Truthy(attributes) /\ Truthy(semantics_given)
        files == IF both THEN {"eventCSVFile", "caseAttributeFile"}
                 ELSE {"eventCSVFile"}
        semantics == IF both
                     THEN {"eventSemantics", "logName", "timeZone",
                           "caseSemantics"}
                     ELSE {"eventSemantics", "logName", "timeZone"}
    IN  handle_response(
            post("/api/logs/csv-case-attributes-event-semantics", NoId,
                 files, semantics, kwargs, resp))

upload_event_log(case_attributes, case_attribute_semantics, kwargs, resp) ==
    LET files_required == {"eventCSVFile"}
        semantics_required == {"eventSemantics", "logName", "timeZone"}
        files == IF Truthy(case_attributes)
                 THEN files_required \cup {"caseAttributeFile"}
                 ELSE files_required
        semantics == IF Truthy(case_attribute_semantics)
                     THEN semantics_required \cup {"caseSemantics"}
                     ELSE semantics_required
    IN  handle_response(
            post("/api/logs/csv-case-attributes-event-semantics", NoId,
                 files, semantics, kwargs, resp))

\* case.read() gives a string, never None.
upload_event_log_stream(case, case_semantics, kwargs, resp) ==
    handle_response(upload_event_log(case, case_semantics, kwargs, resp))

\* df_cases.to_csv(index=False) is never empty; the inferred semantics is a
\* list with one entry per column.
upload_event_log_df(case_semantics, kwargs, resp) ==
    handle_response(upload_event_log("csv", case_semantics, kwargs, resp))

\* Mutant of append_events_df: the case attributes go with the events.
append_events_df_cases(log_id, kwargs, resp) ==
    handle_response(
        post("/api/logs/id/csv", log_id,
             {"eventCSVFile", "caseAttributeFile"},
             {"eventSemantics", "caseSemantics"}, kwargs, resp))

append_events_df(log_id, kwargs, resp) ==
    LET files == {"eventCSVFile"}
        semantics == {"eventSemantics"}
    IN  handle_response(
            post("/api/logs/id/csv", log_id, files, semantics, kwargs, resp))

delete_log(log_id, kwargs, resp) ==
    handle_response(delete("/api/logs/id", log_id, kwargs, resp))

\* The answer to the i-th DELETE of a delete_logs: failAt names the one that
\* fails (0: none).
DeleteResponse(i, failAt) == IF i = failAt THEN Failure("errobj") ELSE Success

\* Mutant of DeleteEach: an exception of a deletion is caught and kept as
\* that deletion's outcome, and the comprehension goes on.
RECURSIVE DeleteEach_collect(_, _, _, _)
DeleteEach_collect(log_ids, i, failAt, acc) ==
    IF i > Len(log_ids) THEN acc
    ELSE LET d == delete_log(log_ids[i], {}, DeleteResponse(i, failAt))
         IN  DeleteEach_collect(log_ids, i + 1, failAt,
                 Running(acc.trace \o d.trace, "none", Append(acc.val, d.val)))

\* [self.delete_log(log_id) for log_id in log_ids], from the i-th id on: the
\* comprehension ends at the first exception.
RECURSIVE DeleteEach(_, _, _, _)
DeleteEach(log_ids, i, failAt, acc) ==
    IF i > Len(log_ids) THEN acc
    ELSE LET d == delete_log(log_ids[i], {}, DeleteResponse(i, failAt))
             next == Running(acc.trace \o d.trace, d.err, Append(acc.val, d.val))
         IN  IF d.err # "none" THEN next
             ELSE DeleteEach(log_ids, i + 1, failAt, next)

delete_logs(contains, kwargs, resp, failAt) ==
    LET r == get_log_ids(contains, kwargs, resp)
    IN  IF r.err # "none" THEN r
        ELSE DeleteEach(r.val, 1, failAt, Running(r.trace, "none", <<>>))

request_event_csv(log_id, kwargs, resp) ==
    handle_response(get("/api/eventCsvWithFilter", log_id, kwargs, resp))

\* get_event_log calls self.get_event_csv(log_id): the enriched CSV export
\* of the log.
get_event_csv(log_id, resp) == request_event_csv(log_id, {}, resp)

\* Mutant of get_event_log: the name is looked up even when a log id is
\* given, and the id is the fallback.
get_event_log_by_name(log_name, log_id, listResp, csvResp) ==
    LET named == get_log_id(log_name, {}, listResp)
        resolved == IF named.err # "none" /\ log_id # NoId
                    THEN Running(named.trace, "none", log_id)
                    ELSE named
    IN  IF resolved.err # "none" THEN resolved
        ELSE LET r == get_event_csv(resolved.val, csvResp)
                 whole == [r EXCEPT !.trace = resolved.trace \o @]
             IN  IF whole.err # "none" THEN whole
                 ELSE [whole EXCEPT !.trace = Append(@, Parsed),
                                    !.val = "DataFrame"]

get_event_log(log_name, log_id, listResp, csvResp) ==
    LET named == get_log_id(log_name, {}, listResp)
        resolved == IF log_id # NoId THEN Running(<<>>, "none", log_id)
                    ELSE named
    IN  IF resolved.err # "none" THEN resolved
        ELSE LET r == get_event_csv(resolved.val, csvResp)
                 whole == [r EXCEPT !.trace = resolved.trace \o @]
             IN  IF whole.err # "none" THEN whole
                 ELSE [whole EXCEPT !.trace = Append(@, Parsed),
                                    !.val = "DataFrame"]

-----------------------------------------------------------------------------
(* The backend. *)

\* The ids of the DELETE requests of a call that the backend answered 2xx.
Deleted(trace) ==
    {trace[i].id : i \in {j \in 1..(Len(trace) - 1) :
        /\ trace[j].ev = "request"
        /\ trace[j].method = "DELETE"
        /\ trace[j + 1].ev = "response"
        /\ trace[j + 1].ok}}

\* The catalog after a call: the logs deleted are gone, the others keep
\* their order.
Remaining(cat, trace) ==
    LET Kept(log) == log.id \notin Deleted(trace)
    IN  SelectSeq(cat, Kept)

-----------------------------------------------------------------------------
(* The calls. *)

NoArgs ==
    [contains |-> None, log_name |-> None, log_id |-> NoId,
     case_attributes |-> "None", case_attribute_semantics |-> "None",
     kwargs |-> {}]

\* The finished call op(args) whose run was r, made while the backend held
\* cat.
Finished(op, args, r, cat) ==
    [op |-> op, args |-> args, trace |-> r.trace, err |-> r.err,
     val |-> IF r.err = "none" THEN r.val ELSE "none", before |-> cat]

\* No call is running or awaiting its caller.
Idle(cat) == Finished("none", NoArgs, Running(<<>>, "none", "none"), cat)

Init ==
    /\ catalog \in Catalogs
    /\ call = Idle(catalog)

\* The client is synchronous: a call begins when the one before it has
\* returned to its caller.
ListLogs ==
    /\ call.op = "none"
    /\ \E kwargs \in Kwargs, resp \in ListingResponses(catalog) :
        LET r == list_logs(kwargs, resp)
            args == [NoArgs EXCEPT !.kwargs = kwargs]
        IN  /\ call' = Finished("list_logs", args, r, catalog)
            /\ catalog' = Remaining(catalog, r.trace)

ListUserLogs ==
    /\ call.op = "none"
    /\ \E kwargs \in Kwargs, resp \in ListingResponses(catalog) :
        LET r == list_user_logs(kwargs, resp)
            args == [NoArgs EXCEPT !.kwargs = kwargs]
        IN  /\ call' = Finished("list_user_logs", args, r, catalog)
            /\ catalog' = Remaining(catalog, r.trace)

GetLogIds ==
    /\ call.op = "none"
    /\ \E contains \in Patterns, kwargs \in Kwargs,
          resp \in ListingResponses(catalog) :
        LET r == get_log_ids(contains, kwargs, resp)
            args == [NoArgs EXCEPT !.contains = contains, !.kwargs = kwargs]
        IN  /\ call' = Finished("get_log_ids", args, r, catalog)
            /\ catalog' = Remaining(catalog, r.trace)

GetLogId ==
    /\ call.op = "none"
    /\ \E log_name \in Patterns, kwargs \in Kwargs,
          resp \in ListingResponses(catalog) :
        LET r == get_log_id(log_name, kwargs, resp)
            args == [NoArgs EXCEPT !.log_name = log_name, !.kwargs = kwargs]
        IN  /\ call' = Finished("get_log_id", args, r, catalog)
            /\ catalog' = Remaining(catalog, r.trace)

UploadEventLog ==
    /\ call.op = "none"
    /\ \E ca \in CaseAttributes, cs \in CaseSemantics, kwargs \in Kwargs,
          resp \in PlainResponses :
        LET r == upload_event_log(ca, cs, kwargs, resp)
            args == [NoArgs EXCEPT !.case_attributes = ca,
                                   !.case_attribute_semantics = cs,
                                   !.kwargs = kwargs]
        IN  /\ call' = Finished("upload_event_log", args, r, catalog)
            /\ catalog' = Remaining(catalog, r.trace)

UploadEventLogStream ==
    /\ call.op = "none"
    /\ \E case \in CaseAttributes \ {"None"}, cs \in CaseSemantics,
          kwargs \in Kwargs, resp \in PlainResponses :
        LET r == upload_event_log_stream(case, cs, kwargs, resp)
            args == [NoArgs EXCEPT !.case_attributes = case,
                                   !.case_attribute_semantics = cs,
                                   !.kwargs = kwargs]
        IN  /\ call' = Finished("upload_event_log_stream", args, r, catalog)
            /\ catalog' = Remaining(catalog, r.trace)

UploadEventLogDf ==
    /\ call.op = "none"
    /\ \E cs \in CaseSemantics \ {"None"}, kwargs \in Kwargs,
          resp \in PlainResponses :
        LET r == upload_event_log_df(cs, kwargs, resp)
            args == [NoArgs EXCEPT !.case_attributes = "csv",
                                   !.case_attribute_semantics = cs,
                                   !.kwargs = kwargs]
        IN  /\ call' = Finished("upload_event_log_df", args, r, catalog)
            /\ catalog' = Remaining(catalog, r.trace)

AppendEventsDf ==
    /\ call.op = "none"
    /\ \E log_id \in Ids, kwargs \in Kwargs, resp \in PlainResponses :
        LET r == append_events_df(log_id, kwargs, resp)
            args == [NoArgs EXCEPT !.log_id = log_id, !.kwargs = kwargs]
        IN  /\ call' = Finished("append_events_df", args, r, catalog)
            /\ catalog' = Remaining(catalog, r.trace)

DeleteLog ==
    /\ call.op = "none"
    /\ \E log_id \in Ids, kwargs \in Kwargs, resp \in PlainResponses :
        LET r == delete_log(log_id, kwargs, resp)
            args == [NoArgs EXCEPT !.log_id = log_id, !.kwargs = kwargs]
        IN  /\ call' = Finished("delete_log", args, r, catalog)
            /\ catalog' = Remaining(catalog, r.trace)

\* failAt is at most the number of DELETEs the call can reach.
DeleteLogs ==
    /\ call.op = "none"
    /\ \E contains \in Patterns, kwargs \in Kwargs,
          resp \in ListingResponses(catalog), failAt \in 0..MaxLogs :
        /\ failAt <= Len(MatchingIds(contains, resp.body.logs))
        /\ LET r == delete_logs(contains, kwargs, resp, failAt)
               args == [NoArgs EXCEPT !.contains = contains,
                                      !.kwargs = kwargs]
           IN  /\ call' = Finished("delete_logs", args, r, catalog)
               /\ catalog' = Remaining(catalog, r.trace)

RequestEventCsv ==
    /\ call.op = "none"
    /\ \E log_id \in Ids, kwargs \in Kwargs, resp \in PlainResponses :
        LET r == request_event_csv(log_id, kwargs, resp)
            args == [NoArgs EXCEPT !.log_id = log_id, !.kwargs = kwargs]
        IN  /\ call' = Finished("request_event_csv", args, r, catalog)
            /\ catalog' = Remaining(catalog, r.trace)

\* The listing's answer is an input only when the log is looked up by name,
\* and the export's only when the log is resolved.
GetEventLog ==
    /\ call.op = "none"
    /\ \E log_name \in Patterns \cup {None}, log_id \in Ids \cup {NoId},
          listResp \in ListingResponses(catalog), csvResp \in PlainResponses :
        /\ log_id # NoId => log_name \in {None, <<"a">>} /\ listResp.ok
        /\ log_id = NoId /\ get_log_id(log_name, {}, listResp).err # "none"
              => csvResp.ok
        /\ LET r == get_event_log(log_name, log_id, listResp, csvResp)
               args == [NoArgs EXCEPT !.log_name = log_name,
                                      !.log_id = log_id]
           IN  /\ call' = Finished("get_event_log", args, r, catalog)
               /\ catalog' = Remaining(catalog, r.trace)

\* The caller takes the value or the exception of the finished call.
Return ==
    /\ call.op # "none"
    /\ call' = Idle(catalog)
    /\ UNCHANGED catalog

Next ==
    \/ ListLogs
    \/ ListUserLogs
    \/ GetLogIds
    \/ GetLogId
    \/ UploadEventLog
    \/ UploadEventLogStream
    \/ UploadEventLogDf
    \/ AppendEventsDf
    \/ DeleteLog
    \/ DeleteLogs
    \/ RequestEventCsv
    \/ GetEventLog
    \/ Return

Spec == Init /\ [][Next]_vars

-----------------------------------------------------------------------------
(* Readings of the last call. *)

IsRequest(e) == e.ev = "request"

RequestsOf(trace) == SelectSeq(trace, IsRequest)

IsDelete(e) == e.ev = "request" /\ e.method = "DELETE"

DeletesOf(trace) == SelectSeq(trace, IsDelete)

\* Some response of the call had a non-2xx status.
SomeFailure(trace) ==
    \E i \in DOMAIN trace : trace[i].ev = "response" /\ ~trace[i].ok

\* The call's first response, the listing's in the calls that list, was 2xx.
ListingOk(trace) ==
    Len(trace) >= 2 /\ trace[2].ev = "response" /\ trace[2].ok

\* The places of cat whose log's name the pattern matches.
MatchPlaces(pattern, cat) ==
    {i \in DOMAIN cat : pattern # None /\ search(pattern, cat[i].name)}

PlaceOf(id, cat) == CHOOSE i \in DOMAIN cat : cat[i].id = id

IsListing(e) ==
    e.ev = "request" /\ e.method = "GET" /\ e.route = "/api/logs"

IsExport(e) ==
    e.ev = "request" /\ e.method = "GET" /\ e.route = "/api/eventCsvWithFilter"

\* Every request of the trace but the first follows the response to the
\* request before it.
Sequential(trace) ==
    \A i \in DOMAIN trace :
        trace[i].ev = "request" /\ i > 1 =>
            \E j \in 1..(i - 1) :
                /\ trace[j].ev = "response"
                /\ \A k \in (j + 1)..(i - 1) : trace[k].ev # "request"
                /\ Cardinality({k \in 1..j : trace[k].ev = "request"})
                       = Cardinality({k \in 1..j : trace[k].ev = "response"})

-----------------------------------------------------------------------------
(* C1 *)

\* C1, as stated: every request of upload_event_log carries eventCSVFile and
\* eventSemantics, and carries caseAttributeFile if and only if it carries
\* caseSemantics, whatever the arguments.
C1_MatchedPairAlways ==
    call.op = "upload_event_log" =>
        /\ Len(RequestsOf(call.trace)) = 1
        /\ \A i \in DOMAIN call.trace : call.trace[i].ev = "request" =>
            /\ "eventCSVFile" \in call.trace[i].files
            /\ "eventSemantics" \in call.trace[i].data
            /\ "caseAttributeFile" \in call.trace[i].files
                   <=> "caseSemantics" \in call.trace[i].data

\* C1, amended: upload_event_log issues one request, which always carries
\* eventCSVFile and eventSemantics; it carries caseAttributeFile exactly when
\* case_attributes is given and non-empty, and caseSemantics exactly when
\* case_attribute_semantics is given and non-empty. The case parts are a
\* matched pair when the caller gives both arguments or neither.
C1_PartsFollowArguments ==
    call.op = "upload_event_log" =>
        /\ Len(RequestsOf(call.trace)) = 1
        /\ \A i \in DOMAIN call.trace : call.trace[i].ev = "request" =>
            /\ "eventCSVFile" \in call.trace[i].files
            /\ "eventSemantics" \in call.trace[i].data
            /\ "caseAttributeFile" \in call.trace[i].files
                   <=> Truthy(call.args.case_attributes)
            /\ "caseSemantics" \in call.trace[i].data
                   <=> Truthy(call.args.case_attribute_semantics)
            /\ (Truthy(call.args.case_attributes)
                    <=> Truthy(call.args.case_attribute_semantics))
                   => ("caseAttributeFile" \in call.trace[i].files
                          <=> "caseSemantics" \in call.trace[i].data)

\* An upload with both case arguments given has sent both case parts.
C1_Witness ==
    /\ call.op = "upload_event_log"
    /\ call.args.case_attributes = "csv"
    /\ call.args.case_attribute_semantics = "semantics"
    /\ \E i \in DOMAIN call.trace :
        /\ call.trace[i].ev = "request"
        /\ {"eventCSVFile", "caseAttributeFile"} \subseteq call.trace[i].files
        /\ {"eventSemantics", "caseSemantics"} \subseteq call.trace[i].data

-----------------------------------------------------------------------------
(* C2 *)

\* C2: get_log_id returns an id only when exactly one log of the catalog
\* matches the name, and then the id of that log; when the listing succeeds
\* and no log or several logs match, it raises its ambiguity error and
\* returns nothing.
C2_UniqueOrAmbiguous ==
    call.op = "get_log_id" =>
        LET places == MatchPlaces(call.args.log_name, call.before)
        IN  /\ call.err = "none" =>
                /\ Cardinality(places) = 1
                /\ \A i \in places : call.val = call.before[i].id
            /\ ListingOk(call.trace) /\ Cardinality(places) = 1 =>
                call.err = "none"
            /\ ListingOk(call.trace) /\ Cardinality(places) # 1 =>
                call.err = "AmbiguousNameError" /\ call.val = "none"

\* get_log_id has picked the one match out of a longer catalog.
C2_Witness ==
    /\ call.op = "get_log_id"
    /\ call.err = "none"
    /\ Len(call.before) = 3
    /\ call.before[2].id = call.val

\* get_log_id has refused a name that two logs match.
C2_WitnessAmbiguous ==
    /\ call.op = "get_log_id"
    /\ call.err = "AmbiguousNameError"
    /\ Cardinality(MatchPlaces(call.args.log_name, call.before)) = 2

-----------------------------------------------------------------------------
(* C3 *)

\* C3: when every response of delete_logs is 2xx, each log whose name matches
\* the pattern is the target of exactly one DELETE, no other log is the
\* target of any, and the catalog afterwards holds the logs that do not
\* match, in their order.
C3_DeletesExactlyMatches ==
    call.op = "delete_logs" /\ call.err = "none" /\ ~SomeFailure(call.trace) =>
        LET places == MatchPlaces(call.args.contains, call.before)
            deletes == DeletesOf(call.trace)
            Unmatched(log) == ~search(call.args.contains, log.name)
        IN  /\ \A i \in DOMAIN call.before :
                Cardinality({k \in DOMAIN deletes :
                    deletes[k].id = call.before[i].id})
                  = IF i \in places THEN 1 ELSE 0
            /\ Len(deletes) = Cardinality(places)
            /\ catalog = SelectSeq(call.before, Unmatched)

\* delete_logs("a") on the catalog a1, a2, b1 has left b1.
C3_Witness ==
    /\ call.op = "delete_logs"
    /\ call.args.contains = <<"a">>
    /\ ~SomeFailure(call.trace)
    /\ Len(call.before) = 3
    /\ call.before[1].name = <<"a", "1">>
    /\ call.before[2].name = <<"a", "2">>
    /\ call.before[3].name = <<"b", "1">>
    /\ Len(DeletesOf(call.trace)) = 2
    /\ catalog = <<call.before[3]>>

-----------------------------------------------------------------------------
(* C4 *)

\* The ids get_log_ids gives delete_logs when the listing succeeds.
Resolved(pattern, cat) ==
    LET places == MatchPlaces(pattern, cat)
        Matched(log) == \E i \in places : cat[i] = log
        logs == SelectSeq(cat, Matched)
    IN  [k \in DOMAIN logs |-> logs[k].id]

\* The place among the DELETEs of a trace of the first that failed (0: none
\* failed).
FirstFailed(trace) ==
    LET failed == {i \in DOMAIN trace :
                      /\ trace[i].ev = "response" /\ ~trace[i].ok
                      /\ i > 1 /\ IsDelete(trace[i - 1])}
    IN  IF failed = {} THEN 0
        ELSE LET first == CHOOSE i \in failed : \A j \in failed : i <= j
             IN  Len(DeletesOf(SubSeq(trace, 1, first)))

-----------------------------------------------------------------------------
(* C5 *)

SingleRequestOps ==
    {"list_logs", "list_user_logs", "get_log_ids", "get_log_id",
     "upload_event_log", "upload_event_log_stream", "upload_event_log_df",
     "append_events_df", "delete_log", "request_event_csv"}

\* What C5 and its amendment say of delete_logs when the listing and every
\* deletion succeed: one listing request, then one DELETE per matching log,
\* each request after the response to the one before.
DeleteLogsRoundTrips ==
    call.op = "delete_logs" /\ ~SomeFailure(call.trace) =>
        LET requests == RequestsOf(call.trace)
            n == Cardinality(MatchPlaces(call.args.contains, call.before))
        IN  /\ Len(requests) = n + 1
            /\ IsListing(call.trace[1])
            /\ \A k \in 2..Len(requests) : IsDelete(requests[k])
            /\ Sequential(call.trace)

C5_WitnessDeleteLogs ==
    /\ call.op = "delete_logs"
    /\ call.err = "none"
    /\ Len(RequestsOf(call.trace)) = 4

-----------------------------------------------------------------------------
(* C6 *)

\* The response that a decoding at place i of the trace reads has had its
\* status checked before.
CheckedBefore(trace, i) ==
    \E j \in 1..(i - 1) :
        /\ trace[j].ev = "validate"
        /\ \A k \in (j + 1)..(i - 1) : trace[k].ev # "response"

\* C6: in every operation a non-2xx response raises RequestError, and no
\* body is decoded before the status of its response has been checked.
C6_StatusCheckedFirst ==
    call.op # "none" =>
        /\ SomeFailure(call.trace) => call.err = "RequestError"
        /\ \A i \in DOMAIN call.trace :
               call.trace[i].ev = "parse" => CheckedBefore(call.trace, i)

-----------------------------------------------------------------------------
(* C7 *)

\* C7: when the listing succeeds, get_log_ids returns the ids of the logs
\* whose name matches the pattern, one per matching log and in the order of
\* the catalog; with no match it returns the empty list and raises nothing.
C7_MatchingIdsInOrder ==
    call.op = "get_log_ids" /\ ListingOk(call.trace) =>
        LET places == MatchPlaces(call.args.contains, call.before) IN
        /\ call.err = "none"
        /\ Len(call.val) = Cardinality(places)
        /\ \A k \in DOMAIN call.val :
               \E i \in places : call.before[i].id = call.val[k]
        /\ \A k, l \in DOMAIN call.val :
               k < l => PlaceOf(call.val[k], call.before)
                            < PlaceOf(call.val[l], call.before)
        /\ places = {} => call.val = <<>>

\* get_log_ids has returned two of three logs, the catalog listing them in
\* an order that is not the order of their ids.
C7_Witness ==
    /\ call.op = "get_log_ids"
    /\ call.err = "none"
    /\ Len(call.before) = 3
    /\ Len(call.val) = 2
    /\ call.val[1] > call.val[2]

\* get_log_ids has returned the empty list for a pattern no log matches.
C7_WitnessEmpty ==
    /\ call.op = "get_log_ids"
    /\ call.err = "none"
    /\ Len(call.before) = 3
    /\ call.val = <<>>

-----------------------------------------------------------------------------
(* C8 *)

\* get_event_log was given no log id, and a name that is absent or does not
\* resolve to exactly one log of the catalog.
Unresolvable ==
    /\ call.op = "get_event_log"
    /\ call.args.log_id = NoId
    /\ Cardinality(MatchPlaces(call.args.log_name, call.before)) # 1

\* get_event_log was given a log id and has asked for the export of that log
\* and for nothing else.
ExportById ==
    call.op = "get_event_log" /\ call.args.log_id # NoId =>
        LET requests == RequestsOf(call.trace)
        IN  /\ Len(requests) = 1
            /\ IsExport(requests[1])
            /\ requests[1].id = call.args.log_id

\* C8, as stated: such a call fails with NotFoundError and issues no export
\* request; a call given a log id requests the export of that id (read of
\* the calls whose listing succeeds).
C8_NotFoundError ==
    /\ Unresolvable /\ ListingOk(call.trace) =>
           /\ call.err = "NotFoundError"
           /\ \A i \in DOMAIN call.trace : ~IsExport(call.trace[i])
    /\ ExportById

\* C8, amended: such a call fails and issues no export request, but not with
\* an error of its own: after the listing request it raises TypeError when
\* the name is absent, and otherwise the error of get_log_id, which is
\* AmbiguousNameError when the listing succeeds. A call given a log id
\* requests the export of that id.
C8_FailsWithLookupError ==
    /\ Unresolvable =>
           /\ call.err # "none"
           /\ call.val = "none"
           /\ \A i \in DOMAIN call.trace : ~IsExport(call.trace[i])
           /\ Len(RequestsOf(call.trace)) = 1
           /\ IsListing(call.trace[1])
           /\ call.args.log_name = None => call.err = "TypeError"
           /\ call.args.log_name # None /\ ListingOk(call.trace) =>
                  call.err = "AmbiguousNameError"
           /\ call.args.log_name # None /\ ~ListingOk(call.trace) =>
                  call.err \in {"JSONDecodeError", "TypeError",
                                "AmbiguousNameError"}
    /\ ExportById

\* get_event_log has failed on a name that two logs match.
C8_Witness ==
    /\ Unresolvable
    /\ call.args.log_name # None
    /\ ListingOk(call.trace)
    /\ Cardinality(MatchPlaces(call.args.log_name, call.before)) = 2
    /\ call.err = "AmbiguousNameError"

\* get_event_log has failed on an absent name.
C8_WitnessNone ==
    /\ Unresolvable
    /\ call.args.log_name = None
    /\ call.err = "TypeError"

-----------------------------------------------------------------------------
(* C9 *)

WriteOps ==
    {"upload_event_log", "upload_event_log_stream", "upload_event_log_df",
     "append_events_df", "delete_log", "delete_logs"}

\* C9: every request of a write operation carries the caller's keyword
\* arguments unchanged, the DELETEs of delete_logs included.
C9_KwargsForwarded ==
    call.op \in WriteOps =>
        \A i \in DOMAIN call.trace :
            call.trace[i].ev = "request" =>
                call.trace[i].kwargs = call.args.kwargs

-----------------------------------------------------------------------------
(* C10 *)

\* C10: append_events_df issues exactly one request, a POST to the csv
\* endpoint of the log it was given, whose body holds eventCSVFile and
\* eventSemantics and nothing else; the catalog is as it was.
C10_AppendTouchesEventsOnly ==
    call.op = "append_events_df" =>
        LET requests == RequestsOf(call.trace)
        IN  /\ Len(requests) = 1
            /\ requests[1].method = "POST"
            /\ requests[1].route = "/api/logs/id/csv"
            /\ requests[1].id = call.args.log_id
            /\ requests[1].files = {"eventCSVFile"}
            /\ requests[1].data = {"eventSemantics"}
            /\ catalog = call.before

\* append_events_df has posted the events of a log of the catalog.
C10_Witness ==
    /\ call.op = "append_events_df"
    /\ call.err = "none"
    /\ \E i \in DOMAIN call.before : call.before[i].id = call.args.log_id
    /\ Len(RequestsOf(call.trace)) = 1
    /\ call.trace[1].files = {"eventCSVFile"}

====
